---- MODULE Spec2Model ----
(***************************************************************************)
(* mingodb: a document store on top of a bbolt key-value file.             *)
(*                                                                         *)
(* The model follows src/mingodb.go.  A Database is a set of named buckets *)
(* (keyspaces); a Collection is a handle (database, name); a stored record *)
(* is key = bytes of bson.MarshalValue(_id), value = bson.Marshal(doc).    *)
(* Values carry their Go type, the codec turns them into a BSON type tag   *)
(* and little-endian bytes, and decoding into map[string]interface{} gives *)
(* back the Go type the BSON type maps to, which need not be the Go type   *)
(* that went in.                                                           *)
(***************************************************************************)
EXTENDS Integers, Sequences, FiniteSets, TLC

VARIABLES
    store,            \* bolt file: bucket name -> (key bytes -> document bytes)
    handles,          \* names of the *Collection handles the caller holds
    objectIDCounter,  \* primitive.NewObjectID's process-wide counter
    last,             \* the last call made and what it returned
    procs             \* goroutines running InsertOne concurrently

vars == <<store, handles, objectIDCounter, last, procs>>

(***************************************************************************)
(* Bounds of the model.                                                    *)
(***************************************************************************)
\* ObjectIDs the sequential specification lets the generator hand out.
MaxOID == 2
\* Goroutines of the concurrent specification.
NProcs == 2

\* Collection names the caller uses; "" is the empty name.
Names == {"a", "b"}
EmptyName == ""

(***************************************************************************)
(* Go values.  t is the Go type, v the value; a string is the sequence of  *)
(* its bytes.                                                              *)
(***************************************************************************)
GoInt(n)    == [t |-> "int", v |-> n]
Int32(n)    == [t |-> "int32", v |-> n]
Int64(n)    == [t |-> "int64", v |-> n]
DateTime(n) == [t |-> "primitive.DateTime", v |-> n]
Str(s)      == [t |-> "string", v |-> s]
ObjectID(c) == [t |-> "primitive.ObjectID", v |-> c]
Null        == [t |-> "primitive.Null", v |-> 0]
Chan        == [t |-> "chan", v |-> 0]
GoNil       == [t |-> "nil", v |-> 0]
\* "no value": the nil InsertID / nil interface{} of an error return.
NoVal       == [t |-> "none", v |-> 0]

\* "Bo"
Bo == <<66, 111>>

\* The empty map.
EmptyMap == [x \in {} |-> NoVal]

(***************************************************************************)
(* The codec (go.mongodb.org/mongo-driver/bson), as mingodb.go calls it.   *)
(***************************************************************************)
\* n as w little-endian bytes (n >= 0).
RECURSIVE LE(_, _)
LE(n, w) == IF w = 0 THEN <<>> ELSE <<n % 256>> \o LE(n \div 256, w - 1)

\* Inverse of LE.
RECURSIVE FromLE(_)
FromLE(b) == IF b = <<>> THEN 0 ELSE Head(b) + 256 * FromLE(Tail(b))

\* An ObjectID is 12 bytes: 4 of timestamp, 5 of process-unique value, 3 of
\* counter, big-endian.  Timestamp and process value are fixed here.
ObjectIDBytes(c) == <<98, 3, 240, 1, 17, 34, 51, 68, 85, 0, 0, c>>

\* Go's int is written as int32 when it fits in 32 bits, else as int64.
FitsIn32Bits(n) == n >= -2147483647 - 1 /\ n <= 2147483647

\* bson.MarshalValue(val): (type, bytes, err).
MarshalValue(val) ==
    CASE val.t = "int" ->
            IF FitsIn32Bits(val.v)
            THEN [err |-> "", tag |-> "int32", bytes |-> LE(val.v, 4)]
            ELSE [err |-> "", tag |-> "int64", bytes |-> LE(val.v, 8)]
      [] val.t = "int32" -> [err |-> "", tag |-> "int32", bytes |-> LE(val.v, 4)]
      [] val.t = "int64" -> [err |-> "", tag |-> "int64", bytes |-> LE(val.v, 8)]
      [] val.t = "primitive.DateTime" ->
            [err |-> "", tag |-> "dateTime", bytes |-> LE(val.v, 8)]
      [] val.t = "string" ->
            [err |-> "", tag |-> "string",
             bytes |-> LE(Len(val.v) + 1, 4) \o val.v \o <<0>>]
      [] val.t = "primitive.ObjectID" ->
            [err |-> "", tag |-> "objectID", bytes |-> ObjectIDBytes(val.v)]
      [] val.t = "primitive.Null" -> [err |-> "", tag |-> "null", bytes |-> <<>>]
      [] OTHER -> [err |-> "ErrNoEncoder", tag |-> "", bytes |-> <<>>]

\* The Go value a BSON element decodes to inside map[string]interface{}.
UnmarshalValue(tag, bytes) ==
    CASE tag = "int32" -> Int32(FromLE(bytes))
      [] tag = "int64" -> Int64(FromLE(bytes))
      [] tag = "dateTime" -> DateTime(FromLE(bytes))
      [] tag = "string" -> Str(SubSeq(bytes, 5, Len(bytes) - 1))
      [] tag = "objectID" -> ObjectID(bytes[12])
      [] tag = "null" -> GoNil

\* A Marshal that leaves out the fields it has no encoder for.
MarshalSkip(m) ==
    [err |-> "",
     bytes |-> {<<k, MarshalValue(m[k]).tag, MarshalValue(m[k]).bytes>> :
                    k \in {f \in DOMAIN m : MarshalValue(m[f]).err = ""}}]

\* bson.Marshal(m): (bytes, err).  A BSON document is a list of elements
\* (type, name, value bytes); their order is Go's map iteration order, which
\* no result depends on, so the document is kept as the set of its elements.
Marshal(m) ==
    IF \E k \in DOMAIN m : MarshalValue(m[k]).err # ""
    THEN [err |-> "ErrNoEncoder", bytes |-> {}]
    ELSE [err |-> "",
          bytes |-> {<<k, MarshalValue(m[k]).tag, MarshalValue(m[k]).bytes>> :
                        k \in DOMAIN m}]

\* bson.Unmarshal(doc, &m) into a map[string]interface{}.
Unmarshal(bdoc) ==
    [k \in {e[1] : e \in bdoc} |->
        LET e == CHOOSE x \in bdoc : x[1] = k IN UnmarshalValue(e[2], e[3])]

(***************************************************************************)
(* The engine (go.etcd.io/bbolt), as mingodb.go calls it.  A transaction   *)
(* works on st, the buckets of the file; db.Update commits what its        *)
(* function did when the function returns nil and rolls back otherwise.    *)
(***************************************************************************)
\* tx.CreateBucket(name) in its place: an existing bucket is an error.
CreateBucket(st, name) ==
    IF name = "" THEN [err |-> "bolt.ErrBucketNameRequired", store |-> st]
    ELSE IF name \in DOMAIN st THEN [err |-> "bolt.ErrBucketExists", store |-> st]
    ELSE [err |-> "",
          store |-> [n \in DOMAIN st \cup {name} |->
                        IF n = name THEN EmptyMap ELSE st[n]]]

\* tx.CreateBucketIfNotExists(name): (err, buckets after).
CreateBucketIfNotExists(st, name) ==
    IF name = "" THEN [err |-> "bolt.ErrBucketNameRequired", store |-> st]
    ELSE IF name \in DOMAIN st THEN [err |-> "", store |-> st]
    ELSE [err |-> "",
          store |-> [n \in DOMAIN st \cup {name} |->
                        IF n = name THEN EmptyMap ELSE st[n]]]

\* A delete that takes a missing bucket for done.
DeleteBucketIfExists(st, name) ==
    [err |-> "", store |-> [n \in DOMAIN st \ {name} |-> st[n]]]

\* tx.DeleteBucket(name): (err, buckets after).
DeleteBucket(st, name) ==
    IF name \notin DOMAIN st THEN [err |-> "bolt.ErrBucketNotFound", store |-> st]
    ELSE [err |-> "", store |-> [n \in DOMAIN st \ {name} |-> st[n]]]

\* tx.Bucket(name) is nil when the file has no such bucket.
BucketIsNil(st, name) == name \notin DOMAIN st

\* A put that writes the bucket anew instead of adding to it.
BucketPutAlone(b, key, value) ==
    IF Len(key) = 0 THEN [err |-> "bolt.ErrKeyRequired", bucket |-> b]
    ELSE [err |-> "", bucket |-> [k \in {key} |-> value]]

\* b.Put(key, value): (err, bucket after).  The bounds bolt puts on the
\* sizes of keys and values are far above what the model stores.
BucketPut(b, key, value) ==
    IF Len(key) = 0 THEN [err |-> "bolt.ErrKeyRequired", bucket |-> b]
    ELSE [err |-> "",
          bucket |-> [k \in DOMAIN b \cup {key} |-> IF k = key THEN value ELSE b[k]]]

\* b.Get(key): the value, or nil.
BucketGet(b, key) ==
    IF key \in DOMAIN b THEN [nil |-> FALSE, value |-> b[key]]
    ELSE [nil |-> TRUE, value |-> {}]

\* db.Update(fn): the buckets after a write transaction whose function
\* returned r.
Update(st, r) == IF r.err = "" THEN r.store ELSE st

(***************************************************************************)
(* Documents as the caller passes them: gotype is the Go type of the       *)
(* argument, m the fields a map holds or a struct exports (under the names *)
(* structs.Map gives them), unexported the fields a struct keeps private.  *)
(***************************************************************************)
MapDoc(m) ==
    [gotype |-> "map[string]interface{}", isnil |-> FALSE, m |-> m,
     unexported |-> EmptyMap]
StructDoc(m, u) ==
    [gotype |-> "struct", isnil |-> FALSE, m |-> m, unexported |-> u]
OtherDoc(t) ==
    [gotype |-> t, isnil |-> FALSE, m |-> EmptyMap, unexported |-> EmptyMap]
NilMapDoc ==
    [gotype |-> "map[string]interface{}", isnil |-> TRUE, m |-> EmptyMap,
     unexported |-> EmptyMap]
NilDoc ==
    [gotype |-> "nil", isnil |-> TRUE, m |-> EmptyMap, unexported |-> EmptyMap]
NoDoc ==
    [gotype |-> "none", isnil |-> TRUE, m |-> EmptyMap, unexported |-> EmptyMap]

\* A kind check that looks through pointers.
KindIndirect(doc) ==
    CASE doc.gotype \in {"struct", "*struct"} -> "struct"
      [] doc.gotype \in {"map[string]interface{}", "map[string]string", "bson.M"} -> "map"
      [] doc.gotype = "int" -> "int"
      [] doc.gotype = "string" -> "string"
      [] doc.gotype = "[]int" -> "slice"

\* reflect.TypeOf(doc).Kind()
Kind(doc) ==
    CASE doc.gotype = "struct" -> "struct"
      [] doc.gotype \in {"map[string]interface{}", "map[string]string", "bson.M"} -> "map"
      [] doc.gotype = "int" -> "int"
      [] doc.gotype = "string" -> "string"
      [] doc.gotype = "[]int" -> "slice"
      [] doc.gotype = "*struct" -> "ptr"

\* structs.Map(doc): the exported fields, by name.
StructsMap(doc) == doc.m

\* An assignment that is lost.
MapSetNot(m, k, x) == m

\* m with m[k] = x.
MapSet(m, k, x) == [f \in DOMAIN m \cup {k} |-> IF f = k THEN x ELSE m[f]]

\* A generator that hands out the same identifier again.
NewObjectIDAgain(c) == ObjectID(1)

\* primitive.NewObjectID() when the counter stands at c.
NewObjectID(c) == ObjectID(c + 1)

(***************************************************************************)
(* Collection.InsertOne and Collection.GetByID as functions of the state.  *)
(* A result has kind "ok" (a value and a nil error), "err" (an error       *)
(* returned to the caller) or "panic" (the call aborts with a run-time     *)
(* panic instead of returning).                                            *)
(***************************************************************************)
\* InsertOne that generates an _id whether or not the document has one.
InsertOnePrepareOverwrite(doc, counter) ==
    LET fail(kind, err, c, after) ==
            [kind |-> kind, err |-> err, id |-> NoVal, bid |-> <<>>, bdoc |-> {},
             counter |-> c, docAfter |-> after]
    IN
    IF doc.gotype = "nil"
    THEN fail("panic", "nil pointer dereference", counter, doc)
    ELSE IF Kind(doc) # "struct" /\ Kind(doc) # "map"
    THEN fail("err", "ErrInvalidType", counter, doc)
    ELSE IF Kind(doc) = "map" /\ doc.gotype # "map[string]interface{}"
    THEN fail("err", "ErrInvalidType", counter, doc)
    ELSE IF doc.isnil
    THEN fail("panic", "assignment to entry in nil map", counter + 1, doc)
    ELSE
        LET id    == NewObjectID(counter)
            m2    == MapSet(doc.m, "_id", id)
            after == IF Kind(doc) = "map" THEN [doc EXCEPT !.m = m2] ELSE doc
            md    == Marshal(m2)
        IN
        IF md.err # "" THEN fail("err", md.err, counter + 1, after)
        ELSE [kind |-> "ok", err |-> "", id |-> id, bid |-> MarshalValue(id).bytes,
              bdoc |-> md.bytes, counter |-> counter + 1, docAfter |-> after]

\* InsertOne that works on a copy of the caller's map.
InsertOnePrepareCopy(doc, counter) ==
    LET fail(kind, err, c) ==
            [kind |-> kind, err |-> err, id |-> NoVal, bid |-> <<>>, bdoc |-> {},
             counter |-> c, docAfter |-> doc]
    IN
    IF doc.gotype = "nil"
    THEN fail("panic", "nil pointer dereference", counter)
    ELSE IF Kind(doc) # "struct" /\ Kind(doc) # "map"
    THEN fail("err", "ErrInvalidType", counter)
    ELSE IF Kind(doc) = "map" /\ doc.gotype # "map[string]interface{}"
    THEN fail("err", "ErrInvalidType", counter)
    ELSE
        LET ok == "_id" \in DOMAIN doc.m
            id == IF ok THEN doc.m["_id"] ELSE NewObjectID(counter)
            c2 == IF ok THEN counter ELSE counter + 1
            m2 == IF ok THEN doc.m ELSE MapSet(doc.m, "_id", id)
            mv == MarshalValue(id)
            md == Marshal(m2)
        IN
        IF mv.err # "" THEN fail("err", mv.err, c2)
        ELSE IF md.err # "" THEN fail("err", md.err, c2)
        ELSE [kind |-> "ok", err |-> "", id |-> id, bid |-> mv.bytes,
              bdoc |-> md.bytes, counter |-> c2, docAfter |-> doc]

\* InsertOne up to the write: type check, normalisation, _id, encoding.
\* counter is the ObjectID counter after the call, docAfter the caller's
\* argument after the call (a map argument is not copied).
InsertOnePrepare(doc, counter) ==
    LET fail(kind, err, c, after) ==
            [kind |-> kind, err |-> err, id |-> NoVal, bid |-> <<>>, bdoc |-> {},
             counter |-> c, docAfter |-> after]
    IN
    IF doc.gotype = "nil"
    THEN fail("panic", "nil pointer dereference", counter, doc)
    ELSE IF Kind(doc) # "struct" /\ Kind(doc) # "map"
    THEN fail("err", "ErrInvalidType", counter, doc)
    ELSE IF Kind(doc) = "map" /\ doc.gotype # "map[string]interface{}"
    THEN fail("err", "ErrInvalidType", counter, doc)
    ELSE
        LET m     == IF Kind(doc) = "struct" THEN StructsMap(doc) ELSE doc.m
            ok    == "_id" \in DOMAIN m
            id    == IF ok THEN m["_id"] ELSE NewObjectID(counter)
            c2    == IF ok THEN counter ELSE counter + 1
        IN
        IF ~ok /\ doc.isnil
        THEN fail("panic", "assignment to entry in nil map", c2, doc)
        ELSE
            LET m2    == IF ok THEN m ELSE MapSet(m, "_id", id)
                after == IF Kind(doc) = "map" THEN [doc EXCEPT !.m = m2] ELSE doc
                mv    == MarshalValue(id)
                md    == Marshal(m2)
            IN
            IF mv.err # "" THEN fail("err", mv.err, c2, after)
            ELSE IF md.err # "" THEN fail("err", md.err, c2, after)
            ELSE [kind |-> "ok", err |-> "", id |-> id, bid |-> mv.bytes,
                  bdoc |-> md.bytes, counter |-> c2, docAfter |-> after]

\* A write transaction that puts the record into every bucket of the file.
InsertOnePutAll(st, name, bid, bdoc) ==
    IF BucketIsNil(st, name)
    THEN [kind |-> "panic", err |-> "nil pointer dereference", store |-> st]
    ELSE
        LET r == BucketPut(st[name], bid, bdoc) IN
        [kind |-> IF r.err = "" THEN "ok" ELSE "err", err |-> r.err,
         store |-> IF r.err # "" THEN st
                   ELSE [n \in DOMAIN st |-> BucketPut(st[n], bid, bdoc).bucket]]

\* InsertOne's write transaction: b.Put(bid, bdoc) in the bucket name.
InsertOnePut(st, name, bid, bdoc) ==
    IF BucketIsNil(st, name)
    THEN [kind |-> "panic", err |-> "nil pointer dereference", store |-> st]
    ELSE
        LET r == BucketPut(st[name], bid, bdoc)
            tx == [err |-> r.err, store |-> [st EXCEPT ![name] = r.bucket]]
        IN [kind |-> IF r.err = "" THEN "ok" ELSE "err", err |-> r.err,
            store |-> Update(st, tx)]

\* No document: the nil interface{} GetByID returns with an error.
NilOut == [nil |-> TRUE, m |-> EmptyMap]

\* GetByID without the check of what b.Get returned.
GetByIDUnchecked(st, name, id) ==
    LET mv == MarshalValue(id) IN
    IF mv.err # "" THEN [kind |-> "err", err |-> mv.err, out |-> NilOut]
    ELSE IF BucketIsNil(st, name)
    THEN [kind |-> "panic", err |-> "nil pointer dereference", out |-> NilOut]
    ELSE
        LET doc == BucketGet(st[name], mv.bytes) IN
        IF doc.nil
        THEN [kind |-> "ok", err |-> "", out |-> NilOut]
        ELSE [kind |-> "ok", err |-> "",
              out |-> [nil |-> FALSE, m |-> Unmarshal(doc.value)]]

\* GetByID(id) through the handle name: (document, error).
GetByIDCall(st, name, id) ==
    LET mv == MarshalValue(id) IN
    IF mv.err # "" THEN [kind |-> "err", err |-> mv.err, out |-> NilOut]
    ELSE IF BucketIsNil(st, name)
    THEN [kind |-> "panic", err |-> "nil pointer dereference", out |-> NilOut]
    ELSE
        LET doc == BucketGet(st[name], mv.bytes) IN
        IF doc.nil
        THEN [kind |-> "err", err |-> "document not found", out |-> NilOut]
        ELSE [kind |-> "ok", err |-> "",
              out |-> [nil |-> FALSE, m |-> Unmarshal(doc.value)]]

(***************************************************************************)
(* What the caller passes.                                                 *)
(***************************************************************************)
\* _id values the caller supplies, and values of the data field "n".
IdVals == {Int64(0), DateTime(0), Null, Chan}
DataVals == {GoInt(1), Str(Bo)}

\* Struct arguments: one exported field, with or without a private one.
StructDocs ==
    {StructDoc([f \in {"n"} |-> GoInt(1)], u) :
        u \in {EmptyMap, [f \in {"secret"} |-> Str(Bo)]}}

\* A map with the fields n and, unless id is NoVal, _id.
Fields(id, d) ==
    IF id = NoVal THEN [f \in {"n"} |-> d]
    ELSE [f \in {"_id", "n"} |-> IF f = "_id" THEN id ELSE d]

\* map[string]interface{} arguments, without and with _id: those the codec
\* and the engine accept, and those one of them rejects.
MapDocs ==
    {MapDoc(Fields(i, d)) : i \in {NoVal, Int64(0), DateTime(0)}, d \in DataVals}
    \cup {MapDoc(Fields(i, GoInt(1))) : i \in {Null, Chan}}
    \cup {MapDoc(Fields(i, Chan)) : i \in {NoVal, Int64(0)}}

\* Arguments that are neither a struct nor a map[string]interface{}.
OtherDocs ==
    {OtherDoc(t) : t \in {"int", "string", "[]int", "*struct",
                          "map[string]string", "bson.M"}}

Docs == StructDocs \cup MapDocs \cup OtherDocs \cup {NilDoc, NilMapDoc}

\* Largest counter value either specification reaches.
MaxCounter == IF MaxOID > NProcs THEN MaxOID ELSE NProcs

\* Identifiers GetByID is called with.
IdArgs == IdVals \cup {ObjectID(c) : c \in 1..MaxCounter}

(***************************************************************************)
(* The sequential specification: one caller, one call at a time.           *)
(***************************************************************************)
\* No filter: the call takes none.
NoFilter == [all |-> FALSE, field |-> "", value |-> NoVal]

\* docs, ids, filter and count are the arguments and results of InsertMany,
\* FindOne and CountDocuments.
Call(op, col, doc, id, kind, err, ret, out, after) ==
    [op |-> op, col |-> col, doc |-> doc, id |-> id, kind |-> kind, err |-> err,
     ret |-> ret, out |-> out, docAfter |-> after,
     docs |-> <<>>, ids |-> <<>>, filter |-> NoFilter, count |-> 0]

Idle == [pc |-> "idle", doc |-> NoDoc, id |-> NoVal, bid |-> <<>>, bdoc |-> {},
         kind |-> "", err |-> "", ret |-> NoVal]

\* After Open(path) on a new file.
Init ==
    /\ store = [n \in {} |-> EmptyMap]
    /\ handles = {}
    /\ objectIDCounter = 0
    /\ last = Call("Open", "", NoDoc, NoVal, "ok", "", NoVal, NilOut, NoDoc)
    /\ procs = [p \in 1..NProcs |-> Idle]

\* Collection without the check of the name.
CollectionUnchecked(name) ==
    LET r == CreateBucketIfNotExists(store, name) IN
    /\ store' = Update(store, r)
    /\ handles' = IF r.err = "" THEN handles \cup {name} ELSE handles
    /\ last' = Call("Collection", name, NoDoc, NoVal,
                    IF r.err = "" THEN "ok" ELSE "err", r.err, NoVal, NilOut, NoDoc)
    /\ UNCHANGED <<objectIDCounter, procs>>

\* db.Collection(name)
Collection(name) ==
    IF name = ""
    THEN /\ last' = Call("Collection", name, NoDoc, NoVal, "err",
                         "ErrEmptyBucketName", NoVal, NilOut, NoDoc)
         /\ UNCHANGED <<store, handles, objectIDCounter, procs>>
    ELSE LET r == CreateBucketIfNotExists(store, name) IN
         /\ store' = Update(store, r)
         /\ handles' = IF r.err = "" THEN handles \cup {name} ELSE handles
         /\ last' = Call("Collection", name, NoDoc, NoVal,
                         IF r.err = "" THEN "ok" ELSE "err", r.err,
                         NoVal, NilOut, NoDoc)
         /\ UNCHANGED <<objectIDCounter, procs>>

\* c.Drop()
Drop(c) ==
    LET r == DeleteBucket(store, c) IN
    /\ c \in handles
    /\ store' = Update(store, r)
    /\ last' = Call("Drop", c, NoDoc, NoVal, IF r.err = "" THEN "ok" ELSE "err",
                    r.err, NoVal, NilOut, NoDoc)
    /\ UNCHANGED <<handles, objectIDCounter, procs>>

\* InsertOnePrepare, worked out once for the arguments of Docs.
PrepareTable ==
    [d \in Docs |-> [c \in 0..MaxCounter |-> InsertOnePrepare(d, c)]]
Prepared(doc, counter) ==
    IF doc \in Docs THEN PrepareTable[doc][counter]
    ELSE InsertOnePrepare(doc, counter)

\* c.InsertOne(doc)
InsertOne(c, doc) ==
    /\ c \in handles
    /\ \E p \in {Prepared(doc, objectIDCounter)} :
        /\ p.counter <= MaxOID
        /\ objectIDCounter' = p.counter
        /\ IF p.kind # "ok"
           THEN /\ store' = store
                /\ last' = Call("InsertOne", c, doc, NoVal, p.kind, p.err, NoVal,
                                NilOut, p.docAfter)
           ELSE \E w \in {InsertOnePut(store, c, p.bid, p.bdoc)} :
                /\ store' = w.store
                /\ last' = Call("InsertOne", c, doc, NoVal, w.kind, w.err,
                                IF w.kind = "ok" THEN p.id ELSE NoVal, NilOut,
                                p.docAfter)
    /\ UNCHANGED <<handles, procs>>

\* c.GetByID(id)
GetByID(c, id) ==
    /\ c \in handles
    /\ \E r \in {GetByIDCall(store, c, id)} :
        last' = Call("GetByID", c, NoDoc, id, r.kind, r.err, NoVal, r.out, NoDoc)
    /\ UNCHANGED <<store, handles, objectIDCounter, procs>>

(***************************************************************************)
(* The methods that are declared and not yet written: each returns its     *)
(* zero values and a nil error, and touches nothing.                       *)
(***************************************************************************)
\* Filters the caller passes: every document, or those with field = value.
MatchAll == [all |-> TRUE, field |-> "", value |-> NoVal]
FieldIs(f, x) == [all |-> FALSE, field |-> f, value |-> x]
Filters == {MatchAll, FieldIs("n", Int32(1))}

\* Batches the caller passes to InsertMany.
Batches ==
    {<<>>,
     <<MapDoc(Fields(NoVal, GoInt(1))), MapDoc(Fields(Int64(0), Str(Bo)))>>}

\* c.InsertMany(docs): return nil, nil
InsertMany(c, docs) ==
    /\ c \in handles
    /\ last' = [Call("InsertMany", c, NoDoc, NoVal, "ok", "", NoVal, NilOut, NoDoc)
                    EXCEPT !.docs = docs, !.ids = <<>>]
    /\ UNCHANGED <<store, handles, objectIDCounter, procs>>

\* c.FindOne(filter, result): return nil, nil
FindOne(c, filter) ==
    /\ c \in handles
    /\ last' = [Call("FindOne", c, NoDoc, NoVal, "ok", "", NoVal, NilOut, NoDoc)
                    EXCEPT !.filter = filter]
    /\ UNCHANGED <<store, handles, objectIDCounter, procs>>

\* c.CountDocuments(filter): return 0, nil
CountDocuments(c, filter) ==
    /\ c \in handles
    /\ last' = [Call("CountDocuments", c, NoDoc, NoVal, "ok", "", NoVal, NilOut,
                     NoDoc)
                    EXCEPT !.filter = filter, !.count = 0]
    /\ UNCHANGED <<store, handles, objectIDCounter, procs>>

\* c.InsertOne(doc) once more, with the map the caller passed to the
\* InsertOne before.
InsertOneAgain(c) ==
    /\ last.op = "InsertOne"
    /\ last.col = c
    /\ last.doc.gotype = "map[string]interface{}"
    /\ InsertOne(c, last.docAfter)

Next ==
    \/ \E name \in Names \cup {EmptyName} : Collection(name)
    \/ \E c \in Names : Drop(c)
    \/ \E c \in Names, doc \in Docs : InsertOne(c, doc)
    \/ \E c \in Names : InsertOneAgain(c)
    \/ \E c \in Names, id \in IdArgs : GetByID(c, id)

\* The calls of the methods not yet written.
NextStubs ==
    \/ \E c \in Names, docs \in Batches : InsertMany(c, docs)
    \/ \E c \in Names, filter \in Filters : FindOne(c, filter)
    \/ \E c \in Names, filter \in Filters : CountDocuments(c, filter)

\* Every method of the package, one caller.
NextAll == Next \/ NextStubs

SpecAll == Init /\ [][NextAll]_vars

Spec == Init /\ [][Next]_vars

(***************************************************************************)
(* The concurrent specification: NProcs goroutines each call InsertOne     *)
(* once through a handle of the collection ConcName, while readers call    *)
(* GetByID.  What a goroutine does before its write transaction touches    *)
(* shared state only through the ObjectID counter, which is an atomic      *)
(* add; bolt runs one write transaction at a time; so a call is two steps. *)
(***************************************************************************)
ConcName == "a"

\* Documents without _id that the codec accepts.
ConcDocs ==
    {d \in StructDocs \cup MapDocs : "_id" \notin DOMAIN d.m /\ Marshal(d.m).err = ""}

\* After Open(path) and Collection(ConcName).
InitConc ==
    /\ store = [n \in {ConcName} |-> EmptyMap]
    /\ handles = {ConcName}
    /\ objectIDCounter = 0
    /\ last = Call("Collection", ConcName, NoDoc, NoVal, "ok", "", NoVal, NilOut,
                   NoDoc)
    /\ procs = [p \in 1..NProcs |-> Idle]

\* Goroutine p enters InsertOne(doc) and runs it up to the write.
Start(p, doc) ==
    /\ procs[p].pc = "idle"
    /\ \E r \in {InsertOnePrepare(doc, objectIDCounter)} :
        /\ objectIDCounter' = r.counter
        /\ procs' = [procs EXCEPT ![p] =
                        [pc |-> IF r.kind = "ok" THEN "put" ELSE "done",
                         doc |-> doc, id |-> r.id, bid |-> r.bid, bdoc |-> r.bdoc,
                         kind |-> IF r.kind = "ok" THEN "" ELSE r.kind,
                         err |-> r.err, ret |-> NoVal]]
    /\ UNCHANGED <<store, handles, last>>

\* Goroutine p runs its write transaction and returns.
Put(p) ==
    /\ procs[p].pc = "put"
    /\ \E w \in {InsertOnePut(store, ConcName, procs[p].bid, procs[p].bdoc)} :
        /\ store' = w.store
        /\ procs' = [procs EXCEPT ![p].pc = "done", ![p].kind = w.kind,
                                  ![p].err = w.err,
                                  ![p].ret = IF w.kind = "ok" THEN procs[p].id
                                             ELSE NoVal]
    /\ UNCHANGED <<handles, objectIDCounter, last>>

NextConc ==
    \/ \E p \in 1..NProcs, doc \in ConcDocs : Start(p, doc)
    \/ \E p \in 1..NProcs : Put(p)
    \/ \E id \in IdArgs : GetByID(ConcName, id)

SpecConc == InitConc /\ [][NextConc]_vars

(***************************************************************************)
(* Vocabulary of the properties.                                           *)
(***************************************************************************)
\* Go types the codec has an encoder for.
Encodable(val) ==
    val.t \in {"int", "int32", "int64", "string", "primitive.ObjectID",
               "primitive.DateTime", "primitive.Null"}

\* A valid document: a struct or a non-nil map[string]interface{} whose
\* stored fields can all be encoded.
ValidDoc(d) ==
    /\ d.gotype \in {"struct", "map[string]interface{}"}
    /\ ~d.isnil
    /\ \A k \in DOMAIN d.m : Encodable(d.m[k])

HasID(d) == "_id" \in DOMAIN d.m

\* The fields of d as the caller wrote them, private ones included.
CallerFields(d) ==
    [k \in DOMAIN d.m \cup DOMAIN d.unexported |->
        IF k \in DOMAIN d.m THEN d.m[k] ELSE d.unexported[k]]

\* The Go value a value comes back as: BSON has no type for Go's int, which
\* is read back as int32 (int64 beyond 32 bits); nil is written as a null.
Decoded(val) ==
    CASE val.t = "int" -> IF FitsIn32Bits(val.v) THEN Int32(val.v) ELSE Int64(val.v)
      [] val.t = "primitive.Null" -> GoNil
      [] OTHER -> val

\* The stored fields of d as they come back.
DecodedFields(m) == [k \in DOMAIN m |-> Decoded(m[k])]

\* Results of GetByID.
Found(m) == [kind |-> "ok", err |-> "", out |-> [nil |-> FALSE, m |-> m]]
NotFound == [kind |-> "err", err |-> "document not found", out |-> NilOut]

\* The keys stored in any bucket.
StoredKeys(st) == UNION {DOMAIN st[n] : n \in DOMAIN st}

\* The key of an identifier.
KeyOf(id) == MarshalValue(id).bytes

(***************************************************************************)
(* C1.  InsertOne of a valid document without _id, then GetByID.           *)
(***************************************************************************)
\* C1 as claimed: for every valid document d without _id, InsertOne(d) on an
\* existing collection succeeds and returns a newly generated identifier
\* id, and GetByID(id) then returns a document whose fields are exactly
\* those of d plus _id = id.
C1_ExactRoundTrip ==
    [][(/\ last'.op = "InsertOne"
        /\ ValidDoc(last'.doc)
        /\ ~HasID(last'.doc)
        /\ last'.col \in DOMAIN store)
       => (/\ last'.kind = "ok"
           /\ last'.ret.t = "primitive.ObjectID"
           /\ KeyOf(last'.ret) \notin StoredKeys(store)
           /\ GetByIDCall(store', last'.col, last'.ret)
                = Found(MapSet(CallerFields(last'.doc), "_id", last'.ret)))]_vars

\* C1 amended: for every valid document d without _id, InsertOne(d) on an
\* existing collection succeeds and returns a newly generated identifier
\* id (an ObjectID under whose key no collection holds a record), and
\* GetByID(id) then returns a map holding the fields of d that are stored
\* (all entries of a map, the exported fields of a struct), each value as
\* the codec decodes it (a Go int comes back as int32), plus _id = id.
C1_DecodedRoundTrip ==
    [][(/\ last'.op = "InsertOne"
        /\ ValidDoc(last'.doc)
        /\ ~HasID(last'.doc)
        /\ last'.col \in DOMAIN store)
       => (/\ last'.kind = "ok"
           /\ last'.ret.t = "primitive.ObjectID"
           /\ KeyOf(last'.ret) \notin StoredKeys(store)
           /\ GetByIDCall(store', last'.col, last'.ret)
                = Found(MapSet(DecodedFields(last'.doc.m), "_id", last'.ret)))]_vars

\* A struct with a private field was inserted as the second generated
\* document and is found under the identifier returned.
C1_Witness ==
    /\ last.op = "InsertOne"
    /\ last.kind = "ok"
    /\ last.doc.gotype = "struct"
    /\ last.doc.unexported # EmptyMap
    /\ last.ret = ObjectID(2)
    /\ GetByIDCall(store, last.col, last.ret).kind = "ok"

(***************************************************************************)
(* C2.  InsertOne of a valid document with an explicit _id, then GetByID.  *)
(***************************************************************************)
\* C2 as claimed: for every valid document d with an explicit _id = k,
\* InsertOne(d) returns exactly k, and GetByID(k) then returns d unchanged.
C2_ExactExplicitID ==
    (/\ last.op = "InsertOne"
     /\ ValidDoc(last.doc)
     /\ HasID(last.doc)
     /\ last.col \in DOMAIN store)
    => (/\ last.kind = "ok"
        /\ last.ret = last.doc.m["_id"]
        /\ GetByIDCall(store, last.col, last.doc.m["_id"])
             = Found(CallerFields(last.doc)))

\* C2 amended: for every valid document d with an explicit _id = k whose
\* encoding is a key the engine accepts (it is not empty, as the encoding
\* of primitive.Null is), InsertOne(d) returns exactly k, no identifier is
\* generated, and GetByID(k) then returns the fields of d, each value as
\* the codec decodes it (a Go int comes back as int32).
C2_DecodedExplicitID ==
    [][(/\ last'.op = "InsertOne"
        /\ ValidDoc(last'.doc)
        /\ HasID(last'.doc)
        /\ KeyOf(last'.doc.m["_id"]) # <<>>
        /\ last'.col \in DOMAIN store)
       => (/\ last'.kind = "ok"
           /\ last'.ret = last'.doc.m["_id"]
           /\ objectIDCounter' = objectIDCounter
           /\ GetByIDCall(store', last'.col, last'.doc.m["_id"])
                = Found(DecodedFields(last'.doc.m)))]_vars

\* A document with _id = DateTime(0) and a Go int field was inserted into a
\* collection that already held generated documents.
C2_Witness ==
    /\ last.op = "InsertOne"
    /\ last.kind = "ok"
    /\ HasID(last.doc)
    /\ last.ret = DateTime(0)
    /\ last.doc.m["n"] = GoInt(1)
    /\ Cardinality(DOMAIN store[last.col]) > 1

(***************************************************************************)
(* C3.  GetByID after Drop, through the same handle.                       *)
(***************************************************************************)
\* C3: after Drop() succeeds on a collection, GetByID through the same
\* handle, for any id that was inserted before the Drop, fails with a
\* not-found error returned to the caller.
C3_DropThenNotFound ==
    [][(last'.op = "Drop" /\ last'.kind = "ok")
       => \A id \in IdArgs :
            GetByIDCall(store, last'.col, id).kind = "ok"
            => GetByIDCall(store', last'.col, id) = NotFound]_vars

C5_InvalidTypeNoWrite ==
    [][(/\ last'.op = "InsertOne"
        /\ last'.doc.gotype \notin {"struct", "map[string]interface{}", "nil"})
       => (/\ last'.kind = "err"
           /\ last'.err = "ErrInvalidType"
           /\ last'.ret = NoVal
           /\ store' = store)]_vars

\* A pointer to a struct was refused by a collection that holds documents.
C5_Witness ==
    /\ last.op = "InsertOne"
    /\ last.doc.gotype = "*struct"
    /\ last.err = "ErrInvalidType"
    /\ last.col \in DOMAIN store
    /\ store[last.col] # EmptyMap

(***************************************************************************)
(* C6.  Collection(name) is idempotent.                                    *)
(***************************************************************************)
\* C6: Collection(name) for a non-empty name never returns an error, never
\* removes or alters documents already stored under that name (or any
\* other), and the handle it returns addresses the keyspace the earlier
\* handles address: GetByID through it returns what they inserted.
C6_CollectionIdempotent ==
    [][(last'.op = "Collection" /\ last'.col # "")
       => (/\ last'.kind = "ok"
           /\ last'.col \in handles'
           /\ last'.col \in DOMAIN store'
           /\ \A n \in DOMAIN store : n \in DOMAIN store' /\ store'[n] = store[n]
           /\ last'.col \in DOMAIN store
              => \A id \in IdArgs :
                    GetByIDCall(store', last'.col, id)
                        = GetByIDCall(store, last'.col, id))]_vars

\* Collection was called again for a collection that holds documents.
C6_Witness ==
    /\ last.op = "Collection"
    /\ last.kind = "ok"
    /\ store[last.col] # EmptyMap

(***************************************************************************)
(* C7.  InsertOne under an _id that is already stored.                     *)
(***************************************************************************)
\* C7: an InsertOne whose _id is already stored replaces that record, so
\* that after any sequence of InsertOne calls GetByID(k) returns the
\* document of the most recent InsertOne with _id = k: an insert under one
\* _id is returned for that _id and leaves what GetByID returns for every
\* other _id as it was.
C7_LastInsertWins ==
    [][(last'.op = "InsertOne" /\ last'.kind = "ok")
       => (/\ GetByIDCall(store', last'.col, last'.ret)
                = Found(MapSet(DecodedFields(last'.doc.m), "_id",
                               Decoded(last'.ret)))
           /\ \A id \in IdArgs :
                (id # last'.ret /\ GetByIDCall(store, last'.col, id).kind = "ok")
                => GetByIDCall(store', last'.col, id)
                     = GetByIDCall(store, last'.col, id))]_vars

(***************************************************************************)
(* C8.  Concurrent InsertOne calls.                                        *)
(***************************************************************************)
\* C8: of NProcs InsertOne calls running concurrently against one
\* collection, each with a document without _id, every call that has
\* returned succeeded with an identifier of its own, and its document is
\* returned by GetByID of that identifier, whatever the interleaving.
C8_NoLostWrites ==
    \A p \in 1..NProcs :
        procs[p].pc = "done"
        => (/\ procs[p].kind = "ok"
            /\ \A q \in 1..NProcs :
                (q # p /\ procs[q].pc = "done") => procs[q].ret # procs[p].ret
            /\ GetByIDCall(store, ConcName, procs[p].ret)
                 = Found(MapSet(DecodedFields(procs[p].doc.m), "_id",
                                procs[p].ret)))

\* All goroutines have returned, after writing in the reverse of the order
\* in which they drew their identifiers.
C8_Witness ==
    /\ \A p \in 1..NProcs : procs[p].pc = "done"
    /\ procs[1].doc # procs[2].doc
    /\ procs[1].ret = ObjectID(2)
    /\ procs[2].ret = ObjectID(1)

(***************************************************************************)
(* C9.  Drop of a keyspace that does not exist.                            *)
(***************************************************************************)
\* C9: Drop() on a collection whose keyspace does not exist fails with the
\* engine's not-found error, returned to the caller, and leaves every
\* collection's stored records unchanged.
C9_DropMissing ==
    [][(last'.op = "Drop" /\ last'.col \notin DOMAIN store)
       => (/\ last'.kind = "err"
           /\ last'.err = "bolt.ErrBucketNotFound"
           /\ store' = store)]_vars

\* A second Drop failed while the other collection holds documents.
C9_Witness ==
    /\ last.op = "Drop"
    /\ last.kind = "err"
    /\ last.col \notin DOMAIN store
    /\ \E n \in DOMAIN store : store[n] # EmptyMap

(***************************************************************************)
(* C10.  Collection("").                                                   *)
(***************************************************************************)
\* C10: Collection("") fails with the empty-name error, returns no handle
\* and creates no keyspace: the keyspaces of the database and the handles
\* held are unchanged by the call.
C10_EmptyName ==
    [][(last'.op = "Collection" /\ last'.col = "")
       => (/\ last'.kind = "err"
           /\ last'.err = "ErrEmptyBucketName"
           /\ handles' = handles
           /\ store' = store)]_vars

\* Collection("") was refused on a database that has collections.
C10_Witness ==
    /\ last.op = "Collection"
    /\ last.col = ""
    /\ last.kind = "err"
    /\ DOMAIN store # {}

(***************************************************************************)
(* Filters, as the comments of FindOne and CountDocuments read them:       *)
(* "documents that match the filter", a filter on the decoded document.    *)
(***************************************************************************)
Matches(filter, m) ==
    filter.all \/ (filter.field \in DOMAIN m /\ m[filter.field] = filter.value)

\* The keys of the records of the bucket name that satisfy filter.
Matching(st, name, filter) ==
    {k \in DOMAIN st[name] : Matches(filter, Unmarshal(st[name][k]))}

(***************************************************************************)
(* C11.  InsertMany.                                                       *)
(***************************************************************************)
\* C11: when InsertMany(docs) returns without error it returns exactly
\* len(docs) identifiers, the i-th being the _id used for docs[i], and every
\* docs[i] is then stored and returned by GetByID of the i-th identifier.
C11_InsertManyStoresAll ==
    (last.op = "InsertMany" /\ last.kind = "ok" /\ last.col \in DOMAIN store)
    => (/\ Len(last.ids) = Len(last.docs)
        /\ \A i \in 1..Len(last.docs) :
              GetByIDCall(store, last.col, last.ids[i])
                = Found(MapSet(DecodedFields(last.docs[i].m), "_id",
                               Decoded(last.ids[i]))))

(***************************************************************************)
(* C12.  CountDocuments.                                                   *)
(***************************************************************************)
\* C12: in every reachable state CountDocuments(filter) returns the number
\* of records stored in the collection whose decoded document satisfies
\* filter.
C12_CountIsNumberOfMatches ==
    (last.op = "CountDocuments" /\ last.col \in DOMAIN store)
    => (/\ last.kind = "ok"
        /\ last.count = Cardinality(Matching(store, last.col, last.filter)))

(***************************************************************************)
(* C13.  FindOne.                                                          *)
(***************************************************************************)
\* C13: FindOne(filter) returns a stored document that satisfies filter
\* when there is one and a not-found error when there is none; it never
\* returns a nil result together with a nil error.
C13_FindOneFindsOrFails ==
    (last.op = "FindOne" /\ last.col \in DOMAIN store)
    => (/\ ~(last.kind = "ok" /\ last.out.nil)
        /\ Matching(store, last.col, last.filter) # {}
           => (/\ last.kind = "ok"
               /\ \E k \in Matching(store, last.col, last.filter) :
                    last.out.m = Unmarshal(store[last.col][k]))
        /\ Matching(store, last.col, last.filter) = {}
           => (last.kind = "err" /\ last.err = "document not found"))

(***************************************************************************)
(* C14.  Stored records are well formed.                                   *)
(***************************************************************************)
\* C14: after any sequence of Collection, InsertOne and Drop calls, every
\* stored record is well formed: its value is the encoding of a document
\* that contains an _id field, and its key is the identifier encoding of
\* exactly that _id.
C14_RecordsWellFormed ==
    \A n \in DOMAIN store : \A k \in DOMAIN store[n] :
        LET m == Unmarshal(store[n][k]) IN
        /\ "_id" \in DOMAIN m
        /\ Marshal(m).err = ""
        /\ Marshal(m).bytes = store[n][k]
        /\ MarshalValue(m["_id"]).err = ""
        /\ KeyOf(m["_id"]) = k

\* A collection holds three records, under generated and supplied _ids.
C14_Witness ==
    /\ last.op = "InsertOne"
    /\ last.kind = "ok"
    /\ Cardinality(DOMAIN store[last.col]) = 3

(***************************************************************************)
(* C15.  What a successful InsertOne without _id changes.                  *)
(***************************************************************************)
\* C15: a successful InsertOne of a document without _id into collection A
\* adds exactly one record to A, leaves every record stored in A before
\* unchanged, and leaves every other collection unchanged.
C15_InsertAddsOneRecord ==
    [][(last'.op = "InsertOne" /\ last'.kind = "ok" /\ ~HasID(last'.doc))
       => (/\ DOMAIN store' = DOMAIN store
           /\ last'.col \in DOMAIN store
           /\ Cardinality(DOMAIN store'[last'.col])
                = Cardinality(DOMAIN store[last'.col]) + 1
           /\ \A k \in DOMAIN store[last'.col] :
                /\ k \in DOMAIN store'[last'.col]
                /\ store'[last'.col][k] = store[last'.col][k]
           /\ \A n \in DOMAIN store \ {last'.col} : store'[n] = store[n])]_vars

\* A generated document joined two others while the other collection holds
\* a document too.
C15_Witness ==
    /\ last.op = "InsertOne"
    /\ last.kind = "ok"
    /\ ~HasID(last.doc)
    /\ Cardinality(DOMAIN store[last.col]) = 3
    /\ \E n \in DOMAIN store \ {last.col} : store[n] # EmptyMap

(***************************************************************************)
(* C16.  InsertOne of a document the codec cannot encode.                  *)
(***************************************************************************)
\* C16: when InsertOne fails because the _id value or a field value cannot
\* be encoded, it returns the encoding error and no write transaction has
\* modified storage: the stored records are identical before and after.
C16_EncodingErrorNoWrite ==
    [][(/\ last'.op = "InsertOne"
        /\ last'.doc.gotype \in {"struct", "map[string]interface{}"}
        /\ ~last'.doc.isnil
        /\ \E k \in DOMAIN last'.doc.m : ~Encodable(last'.doc.m[k]))
       => (/\ last'.kind = "err"
           /\ last'.err = "ErrNoEncoder"
           /\ last'.ret = NoVal
           /\ store' = store)]_vars

\* A document without _id and with a channel for a field was refused by a
\* collection that holds documents.
C16_Witness ==
    /\ last.op = "InsertOne"
    /\ last.err = "ErrNoEncoder"
    /\ ~HasID(last.doc)
    /\ last.doc.m["n"] = Chan
    /\ last.col \in DOMAIN store
    /\ store[last.col] # EmptyMap

(***************************************************************************)
(* C17.  InsertOne through a handle whose keyspace was dropped.            *)
(***************************************************************************)
\* C17: InsertOne through a Collection handle whose keyspace has been
\* removed by Drop (and not recreated) returns an error to its caller
\* rather than aborting.
C17_DroppedHandleReturnsError ==
    (last.op = "InsertOne" /\ last.col \notin DOMAIN store /\ ValidDoc(last.doc))
    => last.kind = "err"

(***************************************************************************)
(* C18.  The key of an _id.                                                *)
(***************************************************************************)
\* C18: the storage key is injective over identifier values that differ in
\* value or in type, so GetByID(a) never returns a document whose _id is
\* not a.
C18_GetByIDReturnsItsID ==
    (last.op = "GetByID" /\ last.kind = "ok")
    => last.out.m["_id"] = Decoded(last.id)

(***************************************************************************)
(* C19.  InsertOne writes the generated _id into the caller's map.         *)
(***************************************************************************)
\* C19: when InsertOne is given a map[string]interface{} without _id, the
\* generated _id is written into the caller's own map, so after a
\* successful call that map contains _id equal to the returned identifier,
\* and an InsertOne of the same map right after returns the same identifier
\* and leaves the collection as it is, with one record for it; a struct
\* argument is never modified.
C19_CallerMapGetsID ==
    [][last'.op = "InsertOne"
       => (/\ last'.doc.gotype = "struct" => last'.docAfter = last'.doc
           /\ (/\ last'.doc.gotype = "map[string]interface{}"
               /\ ~HasID(last'.doc)
               /\ last'.kind = "ok")
              => last'.docAfter.m = MapSet(last'.doc.m, "_id", last'.ret)
           /\ (/\ last.op = "InsertOne"
               /\ last.kind = "ok"
               /\ last.doc.gotype = "map[string]interface{}"
               /\ ~HasID(last.doc)
               /\ HasID(last'.doc)
               /\ last'.doc = last.docAfter
               /\ last'.col = last.col)
              => (/\ last'.kind = "ok"
                  /\ last'.ret = last.ret
                  /\ objectIDCounter' = objectIDCounter
                  /\ store' = store))]_vars

\* The map of an InsertOne without _id was inserted again: it carries the
\* generated ObjectID and the collection holds one record.
C19_Witness ==
    /\ last.op = "InsertOne"
    /\ last.kind = "ok"
    /\ HasID(last.doc)
    /\ last.doc.m["_id"] = ObjectID(1)
    /\ last.ret = ObjectID(1)
    /\ Cardinality(DOMAIN store[last.col]) = 1

(***************************************************************************)
(* C20.  InsertOne of nil.                                                 *)
(***************************************************************************)
\* C20: InsertOne called with a nil document, or with a nil
\* map[string]interface{}, ends by returning an identifier or an error to
\* the caller rather than aborting.
C20_NilReturns ==
    (last.op = "InsertOne" /\ last.doc \in {NilDoc, NilMapDoc})
    => last.kind \in {"ok", "err"}

====
